---- MODULE Spec2Model ----
(***************************************************************************)
(* A model of packages/ariakit-core/src/utils/events.ts.                   *)
(*                                                                         *)
(* The host (the DOM) is modelled by its tables: the timers and animation  *)
(* frames that were requested, the listener list of an element, the        *)
(* listener set of every window of a frame tree, and the events that were  *)
(* dispatched.  Each exported function is one action; the closures a       *)
(* function returns are records kept in the state, and invoking one is an  *)
(* action of its own.                                                      *)
(***************************************************************************)
EXTENDS Naturals, Integers, Sequences, FiniteSets, TLC

VARIABLES
    \* queueBeforeEvent
    qcalls,      \* the closures of the calls made so far
    timers,      \* the host's timer table, indexed by timer id
    listeners,   \* the element's event listener list, in registration order
    qlog,        \* per call: what happened to its callback and its handle
    \* addGlobalEventListener
    reg,          \* per window: the listeners registered on it
    throwsAdd,    \* the windows whose addEventListener throws
    throwsFrames, \* the windows whose `frames` cannot be read
    throwsRemove, \* the windows whose removeEventListener throws
    gcalls,       \* the calls made so far and the closures they returned
    propagated,   \* whether some call or removal threw to its caller
    \* fireBlurEvent, fireFocusEvent
    dispatched,   \* the events dispatched on the element, in order
    fires,        \* the calls made so far: arguments, events, returned value
    \* isOpeningInNewTab
    tab           \* the last call: platform, event and returned value

qvars == <<qcalls, timers, listeners, qlog>>
gvars == <<reg, throwsAdd, throwsFrames, throwsRemove, gcalls, propagated>>
fvars == <<dispatched, fires>>
vars == <<qvars, gvars, fvars, tab>>

----------------------------------------------------------------------------
(* Bounds *)

MaxCalls == 2
NumWindows == 4
MaxThrowing == 2
MaxFires == 2

----------------------------------------------------------------------------
(* queueBeforeEvent *)

Elements == {"el"}
Types == {"keydown", "click"}

\* The optional `timeout` argument: <<>> is undefined, <<n>> is the number n.
Timeouts == {<<>>, <<0>>, <<100>>}

\* JavaScript truthiness of `timeout` in `if (timeout)`.
Truthy(timeout) == Len(timeout) = 1 /\ timeout[1] # 0

\* createTimer: arms a timer in the host table and returns its id; the
\* returned cancel closure is the id together with the kind of the timer.
CreateTimer(tm, timeout, c) ==
    IF Truthy(timeout)
    THEN Append(tm, [kind |-> "timeout", delay |-> timeout, state |-> "armed",
                     call |-> c])
    ELSE Append(tm, [kind |-> "raf", delay |-> <<>>, state |-> "armed",
                     call |-> c])

\* () => clearTimeout(timerId)  /  () => cancelAnimationFrame(timerId)
CancelTimer(tm, id) ==
    IF tm[id].state = "armed" THEN [tm EXCEPT ![id].state = "cleared"] ELSE tm

\* element.addEventListener(type, cb, {once, capture}): the host ignores a
\* registration whose (type, callback, capture) is already in the list.
AddEventListener(ls, el, type, cb, once, capture) ==
    IF \E i \in 1..Len(ls) :
          ls[i].el = el /\ ls[i].type = type /\ ls[i].cb = cb
          /\ ls[i].capture = capture
    THEN ls
    ELSE Append(ls, [el |-> el, type |-> type, cb |-> cb, once |-> once,
                     capture |-> capture])

\* element.removeEventListener(type, cb, capture)
RemoveEventListener(ls, el, type, cb, capture) ==
    SelectSeq(ls, LAMBDA l : ~(l.el = el /\ l.type = type /\ l.cb = cb
                               /\ l.capture = capture))

\* callback(): the user's callback of call c runs; the log keeps who ran it.
Callback(log, c, trigger) ==
    [log EXCEPT ![c].trace = Append(@, trigger)]

\* A timer callback that forgets to run the user's callback.
TimerCallbackSilent(c, s) ==
    [s EXCEPT !.listeners = RemoveEventListener(s.listeners, qcalls[c].element,
                                                qcalls[c].type, c, TRUE)]

\* The timer's callback of call c (the arrow function given to createTimer).
TimerCallback(c, s) ==
    [s EXCEPT !.listeners = RemoveEventListener(s.listeners, qcalls[c].element,
                                                qcalls[c].type, c, TRUE),
              !.log = Callback(s.log, c, "timer")]

\* A callSync that forgets to cancel the timer.
CallSyncKeepsTimer(c, s) ==
    [s EXCEPT !.log = Callback(s.log, c, "event")]

\* callSync of call c, the capture listener.
CallSync(c, s) ==
    [s EXCEPT !.timers = CancelTimer(s.timers, qcalls[c].timerId),
              !.log = Callback(s.log, c, "event")]

\* The host dispatching an event to the listeners that were registered for it
\* when the dispatch began, in registration order; a `once` listener is
\* removed from the list before it is called.
RECURSIVE InvokeListeners(_, _)
InvokeListeners(todo, s) ==
    IF todo = <<>> THEN s
    ELSE LET l == Head(todo)
             present == \E i \in 1..Len(s.listeners) : s.listeners[i] = l
             s1 == IF l.once
                   THEN [s EXCEPT !.listeners =
                            RemoveEventListener(@, l.el, l.type, l.cb, l.capture)]
                   ELSE s
         IN  IF present
             THEN InvokeListeners(Tail(todo), CallSync(l.cb, s1))
             ELSE InvokeListeners(Tail(todo), s)

QState == [timers |-> timers, listeners |-> listeners, log |-> qlog]

NoteDispatch(log, el, type) ==
    [c \in DOMAIN log |->
        IF qcalls[c].element = el /\ qcalls[c].type = type
        THEN [log[c] EXCEPT !.dispatched = TRUE] ELSE log[c]]

\* queueBeforeEvent(element, type, callback, timeout)
QueueBeforeEvent(el, type, timeout) ==
    /\ Len(qcalls) < MaxCalls
    /\ LET c == Len(qcalls) + 1
           tm == CreateTimer(timers, timeout, c)
       IN  /\ timers' = tm
           /\ qcalls' = Append(qcalls, [element |-> el, type |-> type,
                                        timeout |-> timeout, timerId |-> Len(tm)])
           /\ listeners' = AddEventListener(listeners, el, type, c, TRUE, TRUE)
           /\ qlog' = Append(qlog, [trace |-> <<>>, handled |-> FALSE,
                                    handledFirst |-> FALSE, dispatched |-> FALSE])
    /\ UNCHANGED <<gvars, fvars, tab>>

\* The host fires an armed timer or animation frame.
TimerFire(id) ==
    /\ id \in DOMAIN timers
    /\ timers[id].state = "armed"
    /\ LET s == TimerCallback(timers[id].call,
                              [QState EXCEPT !.timers[id].state = "fired"])
       IN  /\ timers' = s.timers
           /\ listeners' = s.listeners
           /\ qlog' = s.log
    /\ UNCHANGED <<qcalls, gvars, fvars, tab>>

\* An event of `type` is dispatched on the element.
DispatchEvent(el, type) ==
    /\ qcalls # <<>>
    /\ LET todo == SelectSeq(listeners, LAMBDA l : l.el = el /\ l.type = type)
           s == InvokeListeners(todo, QState)
       IN  /\ timers' = s.timers
           /\ listeners' = s.listeners
           /\ qlog' = NoteDispatch(s.log, el, type)
    /\ UNCHANGED <<qcalls, gvars, fvars, tab>>

\* The caller invokes the handle queueBeforeEvent returned (cancelTimer).
InvokeHandle(c) ==
    /\ c \in DOMAIN qcalls
    /\ timers' = CancelTimer(timers, qcalls[c].timerId)
    /\ qlog' = [qlog EXCEPT ![c].handled = TRUE,
                            ![c].handledFirst = @ \/ (~qlog[c].handled
                                                      /\ qlog[c].trace = <<>>)]
    /\ UNCHANGED <<qcalls, listeners, gvars, fvars, tab>>

QNext ==
    \/ \E el \in Elements, type \in Types, timeout \in Timeouts :
          QueueBeforeEvent(el, type, timeout)
    \/ \E id \in 1..MaxCalls : TimerFire(id)
    \/ \E el \in Elements, type \in Types : DispatchEvent(el, type)
    \/ \E c \in 1..MaxCalls : InvokeHandle(c)

----------------------------------------------------------------------------
(* addGlobalEventListener *)

\* The frame tree: window 1 is the top window, and the frames of window w are
\* the windows 2w and 2w+1 that exist.
Windows == 1..NumWindows
Frames(w) == SelectSeq(<<2 * w, 2 * w + 1>>, LAMBDA f : f \in Windows)

Listeners == {"f", "g"}
GlobalType == "click"

\* scope.addEventListener(type, listener, options) on a window that lets it.
WindowAdd(r, w, key) == [r EXCEPT ![w] = @ \cup {key}]
\* scope.removeEventListener(type, listener, options) on a window that lets it.
WindowRemove(r, w, key) == [r EXCEPT ![w] = @ \ {key}]

\* A catch that lets the exception through.
Rethrow(res) == res

\* `catch {}` of the try block of addGlobalEventListener.
Catch(res) == [res EXCEPT !.threw = FALSE]

\* `catch {}` of the try block of the removal function.
CatchRemove(res) == [res EXCEPT !.threw = FALSE]

RECURSIVE AddGlobalEventListener(_, _, _)
RECURSIVE AttachFrames(_, _, _)

\* The for loop over Array.from(scope.frames): an exception of a recursive call
\* would leave the loop.
AttachFrames(key, frames, acc) ==
    IF frames = <<>> \/ acc.threw THEN acc
    ELSE LET sub == AddGlobalEventListener(key, Head(frames), acc.reg)
         IN  IF sub.threw
             THEN [acc EXCEPT !.threw = TRUE, !.reg = sub.reg,
                              !.attached = @ \cup sub.attached]
             ELSE AttachFrames(key, Tail(frames),
                     [acc EXCEPT !.reg = sub.reg,
                                 !.children = Append(@, sub.remove),
                                 !.attached = @ \cup sub.attached])

\* The body of the try block.
TryAttach(key, scope, r) ==
    IF scope \in throwsAdd
    THEN [threw |-> TRUE, reg |-> r, children |-> <<>>, attached |-> {}]
    ELSE LET r1 == WindowAdd(r, scope, key)
         IN  IF scope \in throwsFrames
             THEN [threw |-> TRUE, reg |-> r1, children |-> <<>>,
                   attached |-> {scope}]
             ELSE AttachFrames(key, Frames(scope),
                     [threw |-> FALSE, reg |-> r1, children |-> <<>>,
                      attached |-> {scope}])

\* addGlobalEventListener(type, listener, options, scope): the registrations
\* after it, the closure it returns, and whether it threw instead.
AddGlobalEventListener(key, scope, r) ==
    LET t == Catch(TryAttach(key, scope, r))
    IN  [threw |-> t.threw, reg |-> t.reg, attached |-> t.attached,
         remove |-> [scope |-> scope, key |-> key, children |-> t.children]]

RECURSIVE RemoveEventListenerFn(_, _)
RECURSIVE RemoveChildren(_, _)

\* A removal that forgets the child frames.
RemoveChildrenNone(children, acc) == acc

\* for (const remove of children) remove()
RemoveChildren(children, acc) ==
    IF children = <<>> \/ acc.threw THEN acc
    ELSE RemoveChildren(Tail(children),
                        RemoveEventListenerFn(Head(children), acc.reg))

\* The closure `removeEventListener` that addGlobalEventListener returns.
RemoveEventListenerFn(h, r) ==
    LET t == CatchRemove(IF h.scope \in throwsRemove
                         THEN [threw |-> TRUE, reg |-> r]
                         ELSE [threw |-> FALSE,
                               reg |-> WindowRemove(r, h.scope, h.key)])
    IN  IF t.threw THEN t ELSE RemoveChildren(h.children, t)

NoClosure == [scope |-> 0, key |-> <<>>, children |-> <<>>]

\* The callers of addGlobalEventListener; each calls it once.
Callers == {"a", "b"}
\* `options` is passed on as it is given; the calls modelled give none.
Captures == {FALSE}
NoCall == [made |-> FALSE, key |-> <<>>, scope |-> 0, returned |-> FALSE,
           remove |-> NoClosure, attached |-> {}, removed |-> FALSE]

\* Caller p calls addGlobalEventListener(type, listener, options, scope) and
\* keeps what it returns.
AddGlobal(p, listener, capture, scope) ==
    /\ gcalls[p].made = FALSE
    /\ LET key == <<GlobalType, listener, capture>>
           res == AddGlobalEventListener(key, scope, reg)
       IN  /\ reg' = res.reg
           /\ gcalls' = [gcalls EXCEPT ![p] =
                 [made |-> TRUE, key |-> key, scope |-> scope,
                  returned |-> ~res.threw,
                  remove |-> IF res.threw THEN NoClosure ELSE res.remove,
                  attached |-> res.attached, removed |-> FALSE]]
           /\ propagated' = (propagated \/ res.threw)
    /\ UNCHANGED <<throwsAdd, throwsFrames, throwsRemove, qvars, fvars, tab>>

\* Caller p invokes the removal function its call returned.
InvokeRemove(p) ==
    /\ gcalls[p].made
    /\ gcalls[p].returned
    /\ LET res == RemoveEventListenerFn(gcalls[p].remove, reg)
       IN  /\ reg' = res.reg
           /\ propagated' = (propagated \/ res.threw)
    /\ gcalls' = [gcalls EXCEPT ![p].removed = TRUE]
    /\ UNCHANGED <<throwsAdd, throwsFrames, throwsRemove, qvars, fvars, tab>>

GNext ==
    \/ \E p \in Callers, l \in Listeners, capture \in Captures, scope \in Windows :
          AddGlobal(p, l, capture, scope)
    \/ \E p \in Callers : InvokeRemove(p)

----------------------------------------------------------------------------
(* fireBlurEvent, fireFocusEvent *)

\* An EventInit object is a function from the keys it has to their values;
\* an omitted eventInit has no keys.
InitKeys == {"bubbles", "cancelable"}
EventInits == UNION {[D -> BOOLEAN] : D \in SUBSET InitKeys}

\* init[k], with the event constructors' default for a key that is absent.
Field(init, k) == IF k \in DOMAIN init THEN init[k] ELSE FALSE

\* { ...eventInit, bubbles: true }
Spread(init, k, v) ==
    [x \in DOMAIN init \cup {k} |-> IF x = k THEN v ELSE init[x]]

\* new FocusEvent(type, init)
FocusEvent(type, init) ==
    [type |-> type, bubbles |-> Field(init, "bubbles"),
     cancelable |-> Field(init, "cancelable")]

\* element.dispatchEvent(event): the event is delivered, and the result is
\* false exactly when the event is cancelable and a listener prevented it.
DispatchResult(event, prevented) == ~(event.cancelable /\ prevented)
Deliver(log, event, prevented) ==
    Append(log, [type |-> event.type, bubbles |-> event.bubbles,
                 cancelable |-> event.cancelable,
                 result |-> DispatchResult(event, prevented)])

\* A fireBlurEvent that dispatches focusout only if blur was not prevented.
FireBlurEventStopsWhenPrevented(log, eventInit, p1, p2) ==
    LET event == FocusEvent("blur", eventInit)
        defaultAllowed == DispatchResult(event, p1)
        log1 == Deliver(log, event, p1)
        bubbleInit == Spread(eventInit, "bubbles", TRUE)
    IN  [log |-> IF defaultAllowed
                 THEN Deliver(log1, FocusEvent("focusout", bubbleInit), p2)
                 ELSE log1,
         ret |-> defaultAllowed]

\* fireBlurEvent(element, eventInit); p1 and p2 say whether a listener of the
\* element prevents the first and the second event.
FireBlurEvent(log, eventInit, p1, p2) ==
    LET event == FocusEvent("blur", eventInit)
        defaultAllowed == DispatchResult(event, p1)
        log1 == Deliver(log, event, p1)
        bubbleInit == Spread(eventInit, "bubbles", TRUE)
    IN  [log |-> Deliver(log1, FocusEvent("focusout", bubbleInit), p2),
         ret |-> defaultAllowed]

\* fireFocusEvent(element, eventInit)
FireFocusEvent(log, eventInit, p1, p2) ==
    LET event == FocusEvent("focus", eventInit)
        defaultAllowed == DispatchResult(event, p1)
        log1 == Deliver(log, event, p1)
        bubbleInit == Spread(eventInit, "bubbles", TRUE)
    IN  [log |-> Deliver(log1, FocusEvent("focusin", bubbleInit), p2),
         ret |-> defaultAllowed]

NoteFire(fn, eventInit, res) ==
    Append(fires, [fn |-> fn, eventInit |-> eventInit,
                   from |-> Len(dispatched), to |-> Len(res.log),
                   ret |-> res.ret])

FireBlur(eventInit, p1, p2) ==
    /\ Len(fires) < MaxFires
    /\ LET res == FireBlurEvent(dispatched, eventInit, p1, p2)
       IN  /\ dispatched' = res.log
           /\ fires' = NoteFire("fireBlurEvent", eventInit, res)
    /\ UNCHANGED <<qvars, gvars, tab>>

FireFocus(eventInit, p1, p2) ==
    /\ Len(fires) < MaxFires
    /\ LET res == FireFocusEvent(dispatched, eventInit, p1, p2)
       IN  /\ dispatched' = res.log
           /\ fires' = NoteFire("fireFocusEvent", eventInit, res)
    /\ UNCHANGED <<qvars, gvars, tab>>

FNext ==
    \/ \E eventInit \in EventInits, p1 \in BOOLEAN, p2 \in BOOLEAN :
          FireBlur(eventInit, p1, p2)
    \/ \E eventInit \in EventInits, p1 \in BOOLEAN, p2 \in BOOLEAN :
          FireFocus(eventInit, p1, p2)

----------------------------------------------------------------------------
(* isOpeningInNewTab *)

TagNames == {"A", "a", "BUTTON", "button", "INPUT", "input", "DIV", "span"}
ElementTypes == {"", "submit", "button", "reset", "text", "checkbox"}

\* event.currentTarget: null, or an element with its tagName and type.
NullTarget == [exists |-> FALSE, tagName |-> "", type |-> ""]
Targets ==
    {NullTarget} \cup [exists : {TRUE}, tagName : TagNames, type : ElementTypes]
MouseEvents == [currentTarget : Targets, metaKey : BOOLEAN, ctrlKey : BOOLEAN]

\* String.prototype.toLowerCase on the tag names above.
ToLowerCase(str) ==
    CASE str = "A" -> "a"
      [] str = "BUTTON" -> "button"
      [] str = "INPUT" -> "input"
      [] str = "DIV" -> "div"
      [] OTHER -> str

\* An isOpeningInNewTab that looks at ctrlKey on every platform.
IsOpeningInNewTabCtrlOnly(isAppleDevice, event) ==
    LET element == event.currentTarget
        tagName == ToLowerCase(element.tagName)
    IN  IF ~element.exists THEN FALSE
        ELSE IF ~event.ctrlKey THEN FALSE
        ELSE IF tagName = "a" THEN TRUE
        ELSE IF tagName = "button" /\ element.type = "submit" THEN TRUE
        ELSE IF tagName = "input" /\ element.type = "submit" THEN TRUE
        ELSE FALSE

\* isOpeningInNewTab(event), with isApple() returning isAppleDevice.
IsOpeningInNewTab(isAppleDevice, event) ==
    LET element == event.currentTarget
        tagName == ToLowerCase(element.tagName)
    IN  IF ~element.exists THEN FALSE
        ELSE IF isAppleDevice /\ ~event.metaKey THEN FALSE
        ELSE IF ~isAppleDevice /\ ~event.ctrlKey THEN FALSE
        ELSE IF tagName = "a" THEN TRUE
        ELSE IF tagName = "button" /\ element.type = "submit" THEN TRUE
        ELSE IF tagName = "input" /\ element.type = "submit" THEN TRUE
        ELSE FALSE

NoTabCall == [called |-> FALSE, apple |-> FALSE,
              event |-> [currentTarget |-> NullTarget, metaKey |-> FALSE,
                         ctrlKey |-> FALSE],
              result |-> FALSE]

OpeningInNewTab(isAppleDevice, event) ==
    /\ tab' = [called |-> TRUE, apple |-> isAppleDevice, event |-> event,
               result |-> IsOpeningInNewTab(isAppleDevice, event)]
    /\ UNCHANGED <<qvars, gvars, fvars>>

TNext ==
    \E isAppleDevice \in BOOLEAN, event \in MouseEvents :
        OpeningInNewTab(isAppleDevice, event)

----------------------------------------------------------------------------
(* Specifications *)

\* The functions share no state, so each is also specified on its own, with
\* the state of the others left as it is initially.
\* Nothing has been called; the windows that throw are any, up to MaxThrowing
\* (window, operation) pairs.
Init ==
    /\ qcalls = <<>>
    /\ timers = <<>>
    /\ listeners = <<>>
    /\ qlog = <<>>
    /\ reg = [w \in Windows |-> {}]
    /\ throwsAdd \in SUBSET Windows
    /\ throwsFrames \in SUBSET Windows
    /\ throwsRemove \in SUBSET Windows
    /\ Cardinality(throwsAdd) + Cardinality(throwsFrames)
          + Cardinality(throwsRemove) <= MaxThrowing
    /\ gcalls = [p \in Callers |-> NoCall]
    /\ propagated = FALSE
    /\ dispatched = <<>>
    /\ fires = <<>>
    /\ tab = NoTabCall

\* The same with no window that throws.
InitNoThrow ==
    /\ qcalls = <<>>
    /\ timers = <<>>
    /\ listeners = <<>>
    /\ qlog = <<>>
    /\ reg = [w \in Windows |-> {}]
    /\ throwsAdd = {}
    /\ throwsFrames = {}
    /\ throwsRemove = {}
    /\ gcalls = [p \in Callers |-> NoCall]
    /\ propagated = FALSE
    /\ dispatched = <<>>
    /\ fires = <<>>
    /\ tab = NoTabCall

Next == QNext \/ GNext \/ FNext \/ TNext
Spec == Init /\ [][Next]_vars

SpecQueue == InitNoThrow /\ [][QNext]_vars

\* The host eventually fires every armed timer and animation frame.
FairSpecQueue ==
    SpecQueue /\ \A id \in 1..MaxCalls : WF_vars(TimerFire(id))

SpecGlobal == Init /\ [][GNext]_vars

SpecFire == InitNoThrow /\ [][FNext]_vars

SpecTab == InitNoThrow /\ [][TNext]_vars

----------------------------------------------------------------------------
(* Properties of queueBeforeEvent *)

ListenerRegistered(c) == \E i \in 1..Len(listeners) : listeners[i].cb = c
TimerState(c) == timers[qcalls[c].timerId].state

\* C1: the callback of a call runs at most once, and once a trigger has run
\* it the other one is disarmed: after the event the timer is cleared (it
\* never fires), after the timer the capture listener is gone.
C1_CallbackAtMostOnce ==
    \A c \in DOMAIN qcalls :
        /\ Len(qlog[c].trace) <= 1
        /\ qlog[c].trace = <<"event">> =>
              TimerState(c) = "cleared" /\ ~ListenerRegistered(c)
        /\ qlog[c].trace = <<"timer">> =>
              TimerState(c) = "fired" /\ ~ListenerRegistered(c)

\* Both orders have happened: a call run by its timer with an event
\* dispatched afterwards, and a call run by the event.
C1_Witness ==
    \E c, d \in DOMAIN qcalls :
        /\ qlog[c].trace = <<"timer">> /\ qlog[c].dispatched
        /\ qlog[d].trace = <<"event">> /\ TimerState(d) = "cleared"

\* C2: once the handle was invoked before either trigger fired, the callback
\* has not run and the capture listener is not registered.
C2_HandleSuppresses ==
    \A c \in DOMAIN qcalls :
        qlog[c].handledFirst => qlog[c].trace = <<>> /\ ~ListenerRegistered(c)

Queued(c) == c \in DOMAIN qcalls
\* The handle of call c was invoked or an event of its type was dispatched.
Disturbed(c) == Queued(c) /\ (qlog[c].handled \/ qlog[c].dispatched)
RunOnceByTimer(c) == Queued(c) /\ qlog[c].trace = <<"timer">>

\* C7: a queued call whose handle is never invoked and whose event is never
\* dispatched has its callback run, exactly once and by the timer.
C7_TimerEventuallyRuns ==
    \A c \in 1..MaxCalls :
        /\ Queued(c) ~> (Disturbed(c) \/ RunOnceByTimer(c))
        /\ [](Queued(c) /\ ~Disturbed(c)
                => qlog[c].trace = <<>> \/ RunOnceByTimer(c))

C7_Witness ==
    \E c \in DOMAIN qcalls :
        ~qlog[c].handled /\ ~qlog[c].dispatched /\ qlog[c].trace = <<"timer">>

\* C10: the timer is a setTimeout timer whenever a timeout is given, 0
\* included, and an animation frame only when none is given.
C10_TimerKind ==
    \A c \in DOMAIN qcalls :
        timers[qcalls[c].timerId].kind =
            IF qcalls[c].timeout # <<>> THEN "timeout" ELSE "raf"

----------------------------------------------------------------------------
(* Properties of addGlobalEventListener *)

Parent(w) == w \div 2

\* Window f is window s or lies below it in the frame tree.
RECURSIVE InSubtree(_, _)
InSubtree(f, s) == f = s \/ (f > s /\ InSubtree(Parent(f), s))

\* The windows from s down to the parent of f.
AncestorsUpTo(f, s) ==
    {a \in Windows : a # f /\ InSubtree(f, a) /\ InSubtree(a, s)}

\* Caller p makes its call in this step.
Calls(p) == ~gcalls[p].made /\ gcalls'[p].made

\* C3 as stated: under a scope that does not throw, every frame that does not
\* throw on registration and can be reached through readable `frames` gets
\* the listener, whichever other frames throw.
C3_ThrowingFrameHidesNothing ==
    \A p \in Callers :
        gcalls[p].made /\ gcalls[p].scope \notin throwsAdd \cup throwsFrames =>
            \A f \in Windows :
                /\ f # gcalls[p].scope /\ InSubtree(f, gcalls[p].scope)
                /\ f \notin throwsAdd
                /\ \A a \in AncestorsUpTo(f, gcalls[p].scope) : a \notin throwsFrames
                => f \in gcalls[p].attached

\* C3 as amended: a call attaches the listener to exactly the windows below
\* its scope that do not throw on registration and whose ancestors up to the
\* scope throw neither on registration nor on reading `frames`; so a frame
\* that throws hides the frames below it and none of its siblings.
C3_ThrowingFrameHidesItsSubtree ==
    \A p \in Callers :
        gcalls[p].made =>
            \A f \in Windows :
                f \in gcalls[p].attached <=>
                    /\ InSubtree(f, gcalls[p].scope)
                    /\ f \notin throwsAdd
                    /\ \A a \in AncestorsUpTo(f, gcalls[p].scope) :
                          a \notin throwsAdd \cup throwsFrames

\* A frame throws on registration; its sibling got the listener and the
\* frame below it, which does not throw, did not.
C3_Witness ==
    \E p \in Callers, t, f, d \in Windows :
        /\ gcalls[p].made /\ gcalls[p].scope = Parent(t)
        /\ t \in throwsAdd /\ t \notin throwsFrames
        /\ f # t /\ Parent(f) = Parent(t) /\ f \in gcalls[p].attached
        /\ Parent(d) = t /\ d \notin throwsAdd /\ d \notin gcalls[p].attached

\* C4: no call and no removal throws to its caller; a call returns a removal
\* function; a scope that registers has the listener after the call, and if
\* its `frames` can be read so has every frame of it that registers.
C4_NothingPropagates ==
    [][/\ ~propagated'
       /\ \A p \in Callers :
             Calls(p) =>
               LET call == gcalls'[p]
                   fs == Frames(call.scope)
               IN  /\ call.returned
                   /\ call.scope \notin throwsAdd =>
                       /\ call.key \in reg'[call.scope]
                       /\ call.scope \notin throwsFrames =>
                             \A i \in 1..Len(fs) :
                                fs[i] \notin throwsAdd => call.key \in reg'[fs[i]]
      ]_vars

\* A call on a scope with a throwing and a registering frame returned, and
\* its removal function ran over a window whose removeEventListener throws.
C4_Witness ==
    \E p \in Callers, f, g \in Windows :
        /\ gcalls[p].made /\ gcalls[p].returned /\ gcalls[p].removed
        /\ Parent(f) = gcalls[p].scope /\ Parent(g) = gcalls[p].scope
        /\ f \in throwsAdd /\ g \in gcalls[p].attached /\ g \in throwsRemove
        /\ ~propagated

\* C5 as stated: after the removal function of a call ran, the listener is
\* on none of the windows the call attached it to.
C5_RemoveDetachesAll ==
    [][\A p \in Callers :
          InvokeRemove(p) =>
             \A w \in gcalls[p].attached : gcalls[p].key \notin reg'[w]]_vars

\* C5 as amended: after the removal function of a call ran, the listener is
\* on none of the windows the call attached it to, except those whose
\* removeEventListener throws.
C5_RemoveDetachesWhereAllowed ==
    [][\A p \in Callers :
          InvokeRemove(p) =>
             \A w \in gcalls[p].attached \ throwsRemove :
                gcalls[p].key \notin reg'[w]]_vars

\* A removal function ran; the listener left a frame and stayed on a window
\* whose removeEventListener throws.
C5_Witness ==
    \E p \in Callers, w, v \in Windows :
        /\ gcalls[p].removed
        /\ {w, v} \subseteq gcalls[p].attached
        /\ v # gcalls[p].scope /\ v \notin throwsRemove
        /\ gcalls[p].key \notin reg[v]
        /\ w \in throwsRemove /\ gcalls[p].key \in reg[w]

\* C6: invoking a handle again changes no timer and no listener registration
\* and raises no error.
C6_SecondInvocationIsNoOp ==
    [][/\ \A c \in DOMAIN qcalls :
             qlog[c].handled /\ InvokeHandle(c) =>
                timers' = timers /\ listeners' = listeners
       /\ \A p \in Callers :
             gcalls[p].removed /\ InvokeRemove(p) =>
                reg' = reg /\ ~propagated'
      ]_vars

----------------------------------------------------------------------------
(* Properties of fireBlurEvent and fireFocusEvent *)

FirstType(fn) == IF fn = "fireBlurEvent" THEN "blur" ELSE "focus"
SecondType(fn) == IF fn = "fireBlurEvent" THEN "focusout" ELSE "focusin"
EventsOf(call) == SubSeq(dispatched, call.from + 1, call.to)

\* C8: a call dispatches exactly two events: blur (focus), bubbling only if
\* eventInit says so, then focusout (focusin), bubbling; and it returns the
\* dispatch result of the first.
C8_TwoEventsInOrder ==
    \A k \in DOMAIN fires :
        LET call == fires[k]
            evs == EventsOf(call)
        IN  /\ Len(evs) = 2
            /\ evs[1].type = FirstType(call.fn)
            /\ evs[1].bubbles = ("bubbles" \in DOMAIN call.eventInit
                                   /\ call.eventInit["bubbles"])
            /\ evs[2].type = SecondType(call.fn)
            /\ evs[2].bubbles
            /\ call.ret = evs[1].result

\* A blur without eventInit.bubbles was prevented, focusout followed and was
\* not prevented, and the call returned false.
C8_Witness ==
    \E k \in DOMAIN fires :
        /\ fires[k].fn = "fireBlurEvent"
        /\ "bubbles" \notin DOMAIN fires[k].eventInit
        /\ Len(EventsOf(fires[k])) = 2
        /\ ~EventsOf(fires[k])[1].result /\ ~EventsOf(fires[k])[1].bubbles
        /\ EventsOf(fires[k])[2].result
        /\ ~fires[k].ret

----------------------------------------------------------------------------
(* Properties of isOpeningInNewTab *)

IsAnchor(t) == t.tagName \in {"a", "A"}
IsSubmit(t) ==
    t.tagName \in {"button", "BUTTON", "input", "INPUT"} /\ t.type = "submit"

\* C9: the result is true exactly when there is a currentTarget, the
\* modifier of the platform is held and the element is an anchor or a
\* submit button or input.
C9_NewTabExactly ==
    tab.called =>
        (tab.result <=>
            /\ tab.event.currentTarget.exists
            /\ IF tab.apple THEN tab.event.metaKey ELSE tab.event.ctrlKey
            /\ IsAnchor(tab.event.currentTarget)
                  \/ IsSubmit(tab.event.currentTarget))

\* On an Apple device, a submit button clicked with Meta and without Ctrl.
C9_Witness ==
    /\ tab.called /\ tab.result /\ tab.apple
    /\ tab.event.metaKey /\ ~tab.event.ctrlKey
    /\ tab.event.currentTarget.tagName = "BUTTON"

====
